---- MODULE Spec2Model ----
(***************************************************************************)
(* gitlab-pipe-viewer: a terminal browser over a GitLab instance.          *)
(* The model covers the two iterations of the program kept in main.go:     *)
(*   variant 1 = main.go lines 1..352   (start dialog, group search,       *)
(*                                       branch drop-down)                 *)
(*   variant 2 = main.go lines 354..680 (group tree at launch, branch      *)
(*                                       modal)                            *)
(* The two earlier iterations (src/unnamed) end at the pipeline list and    *)
(* have no views below it; their tree building is that of variant 2.       *)
(* Strings are sequences of one-character strings so that ToLower,         *)
(* Contains, HasPrefix, Itoa and Atoi are computed, not assumed.           *)
(***************************************************************************)
EXTENDS Integers, Sequences, FiniteSets, TLC

(***************************************************************************)
(* Bounds of the model                                                     *)
(***************************************************************************)
\* the server's group listing has 0, 1 or MaxGroupPages pages
MaxGroupPages == 2
\* the server's pipeline listing of (project 42, main) has 1 or MaxPipePages pages
MaxPipePages == 2
\* at most MaxRetries retry mutations succeed in one run
MaxRetries == 1

(***************************************************************************)
(* Strings                                                                 *)
(***************************************************************************)
UpperChars == <<"A","B","C","D","E","F","G","H","I","J","K","L","M",
                "N","O","P","Q","R","S","T","U","V","W","X","Y","Z">>
LowerChars == <<"a","b","c","d","e","f","g","h","i","j","k","l","m",
                "n","o","p","q","r","s","t","u","v","w","x","y","z">>
Digits == <<"0","1","2","3","4","5","6","7","8","9">>

\* strings.ToLower, one character
ToLowerChar(c) ==
    IF \E i \in 1..Len(UpperChars) : UpperChars[i] = c
    THEN LowerChars[CHOOSE i \in 1..Len(UpperChars) : UpperChars[i] = c]
    ELSE c

\* strings.ToLower
ToLower(s) == [i \in 1..Len(s) |-> ToLowerChar(s[i])]

\* strings.HasPrefix
HasPrefix(s, p) == Len(p) <= Len(s) /\ SubSeq(s, 1, Len(p)) = p

\* strings.Contains
Contains(s, sub) ==
    \E i \in 0..(Len(s) - Len(sub)) : SubSeq(s, i + 1, i + Len(sub)) = sub

DigitChar(d) == Digits[d + 1]

RECURSIVE Itoa(_)
\* fmt.Sprintf("%d", n) and strconv.Itoa(n), for n >= 0
Itoa(n) == IF n < 10 THEN <<DigitChar(n)>>
           ELSE Itoa(n \div 10) \o <<DigitChar(n % 10)>>

IsDigit(c) == \E i \in 1..Len(Digits) : Digits[i] = c
DigitVal(c) == (CHOOSE i \in 1..Len(Digits) : Digits[i] = c) - 1

RECURSIVE ParseDigits(_)
ParseDigits(s) == IF Len(s) = 0 THEN 0
                  ELSE 10 * ParseDigits(SubSeq(s, 1, Len(s) - 1)) + DigitVal(s[Len(s)])

\* strconv.Atoi succeeds on a non-empty string of decimal digits
AtoiOk(s) == Len(s) > 0 /\ \A i \in 1..Len(s) : IsDigit(s[i])

\* toInt: the integer a decimal string denotes, 0 when it does not parse
toInt(s) == IF AtoiOk(s) THEN ParseDigits(s) ELSE 0

(***************************************************************************)
(* Text constants of the program                                           *)
(***************************************************************************)
DefaultURL == <<"h","t","t","p","s",":","/","/","g","i","t","l","a","b",".","c","o","m">>
TreeRootText == <<"G","i","t","L","a","b"," ","P","i","p","e","l","i","n","e","s">>
\* "*" stands for the icon glyph the instance node's text starts with
InstancePrefix == <<"*"," ","I","n","s","t","a","n","c","e",":"," ">>
GroupsRootText == <<"G","r","o","u","p","s">>
GroupPrefix1 == <<" ","G","r","o","u","p",":"," ">>
GroupPrefix2 == <<"G","r","o","u","p",":"," ">>
ProjectPrefix == <<"P","r","o","j","e","c","t",":"," ">>

(***************************************************************************)
(* The remote instance (the environment the ResourceClient talks to)       *)
(***************************************************************************)
CustomURL == <<"h","t","t","p",":","/","/","g","l">>
SomeToken == <<"t","o","k">>
main_ == <<"m","a","i","n">>
dev_ == <<"d","e","v">>

\* entries per page of a paginated listing
PageSize == 2

GroupNames == << <<"A","l","p","h","a">>, <<"b","e","t","a">>, <<"G","A","L","A">> >>
GroupOf(g) == [ID |-> g, Name |-> GroupNames[((g - 1) % 3) + 1]]

\* page k (1-based) of a listing of n pages of groups
GroupPage(k) == [i \in 1..PageSize |-> GroupOf((k - 1) * PageSize + i)]

RECURSIVE AllGroups(_)
\* the whole group listing of n pages: pages 1..n concatenated in order
AllGroups(n) == IF n = 0 THEN <<>> ELSE AllGroups(n - 1) \o GroupPage(n)

ProjectsOfGroup(g) ==
    CASE g = 1 -> << [ID |-> 42, Name |-> <<"w","e","b">>],
                     [ID |-> 43, Name |-> <<"a","p","i">>] >>
      [] g = 2 -> << [ID |-> 44, Name |-> <<"d","o","c","s">>] >>
      [] OTHER -> <<>>

BranchesOfProject(p) ==
    CASE p = 42 -> << [Name |-> main_], [Name |-> dev_] >>
      [] p = 43 -> <<>>
      [] p = 44 -> << [Name |-> main_] >>
      [] OTHER -> <<>>

PipelineOf(id, ref) == [ID |-> id, Ref |-> ref]

\* page k of the pipelines of (project 42, main): full pages, the last holds one
PipePage42(k, n) ==
    IF k < n THEN [i \in 1..PageSize |-> PipelineOf(100 + (k - 1) * PageSize + i, main_)]
    ELSE << PipelineOf(100 + (k - 1) * PageSize + 1, main_) >>

\* number of pages of the pipeline listing of (p, ref)
PipePageCount(p, ref, n) ==
    IF p = 42 /\ ref = main_ THEN n
    ELSE IF p = 42 /\ ref = dev_ THEN 1 ELSE 0

PipePage(p, ref, k, n) ==
    IF p = 42 /\ ref = main_ THEN PipePage42(k, n)
    ELSE IF p = 42 /\ ref = dev_ /\ k = 1 THEN << PipelineOf(300, dev_) >>
    ELSE <<>>

AllPipelineIDs == {100 + i : i \in 1..((MaxPipePages - 1) * PageSize + 1)} \cup {300}
JobIDsOf(pl) == << pl * 10 + 1, pl * 10 + 2 >>
AllJobIDs == UNION {{JobIDsOf(pl)[1], JobIDsOf(pl)[2]} : pl \in AllPipelineIDs}
JobNameOf(j) == IF j % 10 = 1 THEN <<"b","u","i","l","d">> ELSE <<"t","e","s","t">>
InitialJobStatus(j) == IF j % 10 = 1 THEN "success" ELSE "failed"

RECURSIVE AllPipelines(_, _, _, _)
\* the whole pipeline listing of (p, ref): pages 1..k concatenated in order
AllPipelines(p, ref, k, n) ==
    IF k = 0 THEN <<>> ELSE AllPipelines(p, ref, k - 1, n) \o PipePage(p, ref, k, n)

(***************************************************************************)
(* State                                                                   *)
(***************************************************************************)
VARIABLES
    variant,      \* 1 or 2: which iteration of main.go runs
    loopVar,      \* "shared" or "perIteration": the build's for-loop variable semantics
    tokenEnv,     \* GITLAB_PERSONAL_TOKEN, <<>> when unset
    urlEnv,       \* GITLAB_URL, <<>> when unset
    nGroupPages,  \* pages the server reports for the group listing
    nPipePages,   \* pages the server reports for the pipelines of (42, main)
    jobStatus,    \* the server's status of every job
    retries,      \* retry mutations the server has accepted
    gitlabURL,    \* the base URL init() settles on
    screen,       \* what the application's root shows
    tree,         \* the group tree view built last
    branchDlg,    \* the branch selection: project and fetched branches
    pipes,        \* the pipeline list view built last
    jobs,         \* the job list view built last (captured by its closures)
    sel,          \* index of the job the action dialog is about
    logView,      \* job whose log the log view shows
    lastEvent,    \* the input event handled last
    input,        \* what the last event carried: a node, a list position, a text
    calls,        \* the remote calls the last handler made, in order
    pre           \* the views as they were before the last event

envVars == <<variant, loopVar, tokenEnv, urlEnv, nGroupPages, nPipePages>>
serverVars == <<jobStatus, retries>>
uiVars == <<gitlabURL, screen, tree, branchDlg, pipes, jobs, sel, logView>>
vars == <<envVars, serverVars, uiVars, lastEvent, input, calls, pre>>

(***************************************************************************)
(* ResourceClient: what each go-gitlab call returns from the instance      *)
(***************************************************************************)
Call(op, project, ref, id, page, ok) ==
    [op |-> op, project |-> project, ref |-> ref, id |-> id, page |-> page, ok |-> ok]

\* Groups.ListGroups(&ListGroupsOptions{}): no page option, the first page
ListGroups == IF nGroupPages >= 1 THEN GroupPage(1) ELSE <<>>

\* Groups.ListGroupProjects(group.ID, &ListGroupProjectsOptions{})
ListGroupProjects(g) == ProjectsOfGroup(g)

\* Branches.ListBranches(projectID, &ListBranchesOptions{})
ListBranches(projectID) == BranchesOfProject(toInt(projectID))

\* Pipelines.ListProjectPipelines(projectID, {Ref: &branch}): the first page
ListProjectPipelines(projectID, branch) ==
    IF PipePageCount(toInt(projectID), branch, nPipePages) >= 1
    THEN PipePage(toInt(projectID), branch, 1, nPipePages)
    ELSE <<>>

\* Jobs.ListPipelineJobs(projectID, pipeline, &ListJobsOptions{})
ListPipelineJobs(projectID, pipeline) ==
    IF pipeline \in AllPipelineIDs
    THEN [i \in 1..2 |-> [ID |-> JobIDsOf(pipeline)[i],
                          Name |-> JobNameOf(JobIDsOf(pipeline)[i]),
                          Status |-> jobStatus[JobIDsOf(pipeline)[i]]]]
    ELSE <<>>

(***************************************************************************)
(* Views                                                                   *)
(***************************************************************************)
Node(text, selectable, hasRef, ref, children) ==
    [text |-> text, selectable |-> selectable, hasRef |-> hasRef, ref |-> ref,
     children |-> children]

NoTree == [built |-> FALSE, searchTerm |-> <<>>, root |-> Node(<<>>, FALSE, FALSE, <<>>, <<>>)]
NoBranchDlg == [projectID |-> <<>>, branches |-> <<>>]
NoPipes == [projectID |-> <<>>, branch |-> <<>>, items |-> <<>>]
NoJobs == [projectID |-> <<>>, pipelineName |-> <<>>, pipelineJobs |-> <<>>]

\* the views an event handler starts from
Snapshot == [screen |-> screen, tree |-> tree, branchDlg |-> branchDlg,
             pipes |-> pipes, jobs |-> jobs, sel |-> sel]

\* an event that carries nothing
NoInput == [node |-> Node(<<>>, FALSE, FALSE, <<>>, <<>>), index |-> 0, text |-> <<>>]

(***************************************************************************)
(* Building the group tree                                                 *)
(***************************************************************************)
\* the filter test without the case folding
GroupMatchesCaseSensitive(searchTerm, name) ==
    searchTerm = <<>> \/ Contains(name, searchTerm)

\* the filter test of buildGroups: empty term, or case-insensitive substring
GroupMatches(searchTerm, name) ==
    searchTerm = <<>> \/ Contains(ToLower(name), ToLower(searchTerm))

\* the groups buildGroups makes nodes for, out of the fetched ones
ShownGroups(fetched, searchTerm) ==
    SelectSeq(fetched, LAMBDA g : GroupMatches(searchTerm, g.Name))

projectNode(project) ==
    Node(ProjectPrefix \o project.Name, TRUE, TRUE, Itoa(project.ID), <<>>)

\* a group's node; its project listing is skipped when that fetch fails
groupNode(prefix, group, failed) ==
    Node(prefix \o group.Name, TRUE, FALSE, <<>>,
         IF group.ID \in failed THEN <<>>
         ELSE [i \in 1..Len(ListGroupProjects(group.ID)) |->
                   projectNode(ListGroupProjects(group.ID)[i])])

\* buildGroups that leaves the loop at the first failed project listing
buildGroupsStopsAtFailure(searchTerm, groupsOk, failed) ==
    LET shown == ShownGroups(ListGroups, searchTerm)
        bad == {i \in 1..Len(shown) : shown[i].ID \in failed}
        last == IF bad = {} THEN Len(shown)
                ELSE CHOOSE i \in bad : \A j \in bad : i <= j
    IN  Node(InstancePrefix \o gitlabURL, TRUE, FALSE, <<>>,
             IF ~groupsOk THEN <<>>
             ELSE [i \in 1..last |-> groupNode(GroupPrefix1, shown[i], failed)])

\* variant 1: the instance node with the filtered groups of the fetched page
buildGroups(searchTerm, groupsOk, failed) ==
    Node(InstancePrefix \o gitlabURL, TRUE, FALSE, <<>>,
         IF ~groupsOk THEN <<>>
         ELSE [i \in 1..Len(ShownGroups(ListGroups, searchTerm)) |->
                   groupNode(GroupPrefix1, ShownGroups(ListGroups, searchTerm)[i], failed)])

\* variant 2: the "Groups" node with every fetched group
buildGroupsV2(groupsOk, failed) ==
    Node(GroupsRootText, TRUE, FALSE, <<>>,
         IF ~groupsOk THEN <<>>
         ELSE [i \in 1..Len(ListGroups) |-> groupNode(GroupPrefix2, ListGroups[i], failed)])

\* the remote calls of buildGroups, in order
buildGroupsCalls(shown, groupsOk, failed) ==
    << Call("ListGroups", <<>>, <<>>, 0, 1, groupsOk) >> \o
    (IF ~groupsOk THEN <<>>
     ELSE [i \in 1..Len(shown) |->
               Call("ListGroupProjects", <<>>, <<>>, shown[i].ID, 1, shown[i].ID \notin failed)])

\* buildTree: the tree view around the node buildGroups returns
buildTree(searchTerm, groupsOk, failed) ==
    [built |-> TRUE, searchTerm |-> searchTerm,
     root |-> Node(TreeRootText, FALSE, FALSE, <<>>,
                   << IF variant = 1 THEN buildGroups(searchTerm, groupsOk, failed)
                      ELSE buildGroupsV2(groupsOk, failed) >>)]

FetchedGroupIDs == {ListGroups[i].ID : i \in 1..Len(ListGroups)}

\* app.SetRoot(buildTree(app, searchTerm), true): the tree is shown whatever
\* buildGroups could fetch
SetRootTree(searchTerm) ==
    \E groupsOk \in BOOLEAN, failed \in SUBSET FetchedGroupIDs :
        /\ tree' = buildTree(searchTerm, groupsOk, failed)
        /\ calls' = buildGroupsCalls(
                        IF variant = 1 THEN ShownGroups(ListGroups, searchTerm)
                        ELSE ListGroups, groupsOk, failed)
        /\ screen' = "tree"

\* every event handler records the event and the views it started from
Handle(ev) == lastEvent' = ev /\ pre' = Snapshot /\ input' = NoInput

\* the same for an event that carries a node, a list position or a text
HandleInput(ev, in) == lastEvent' = ev /\ pre' = Snapshot /\ input' = in

(***************************************************************************)
(* Startup                                                                 *)
(***************************************************************************)
FilterTexts == { <<>>, <<"a","l">>, <<"A","L">>, <<"e","t">> }

Init ==
    /\ variant \in {1, 2}
    /\ loopVar \in {"shared", "perIteration"}
    /\ tokenEnv \in {<<>>, SomeToken}
    /\ urlEnv \in {<<>>, CustomURL}
    /\ nGroupPages \in {0, 1, MaxGroupPages}
    /\ nPipePages \in {1, MaxPipePages}
    /\ jobStatus = [j \in AllJobIDs |-> InitialJobStatus(j)]
    /\ retries = 0
    /\ gitlabURL = <<>>
    /\ screen = "boot"
    /\ tree = NoTree
    /\ branchDlg = NoBranchDlg
    /\ pipes = NoPipes
    /\ jobs = NoJobs
    /\ sel = 0
    /\ logView = 0
    /\ lastEvent = "none"
    /\ input = NoInput
    /\ calls = <<>>
    /\ pre = Snapshot

\* init() without the test for the token
initNoTokenCheck ==
    /\ screen = "boot"
    /\ Handle("init")
    /\ \E clientOk \in BOOLEAN, groupsOk \in BOOLEAN :
        /\ urlEnv = <<>> => clientOk
        /\ gitlabURL' = IF urlEnv = <<>> THEN DefaultURL ELSE urlEnv
        /\ calls' = IF clientOk /\ variant = 2
                    THEN << Call("ListGroups", <<>>, <<>>, 0, 1, groupsOk) >>
                    ELSE <<>>
        /\ screen' = IF ~clientOk \/ (variant = 2 /\ ~groupsOk)
                     THEN "exited" ELSE "initialized"
    /\ UNCHANGED <<envVars, serverVars, tree, branchDlg, pipes, jobs, sel, logView>>

\* init(): exit without a token or a client; variant 2 also lists the groups.
\* gitlab.NewClient fails only on a base URL that does not parse, which the
\* default URL does
init ==
    /\ screen = "boot"
    /\ Handle("init")
    /\ \E clientOk \in BOOLEAN, groupsOk \in BOOLEAN :
        /\ urlEnv = <<>> => clientOk
        /\ gitlabURL' = IF tokenEnv = <<>> THEN gitlabURL
                        ELSE IF urlEnv = <<>> THEN DefaultURL ELSE urlEnv
        /\ calls' = IF tokenEnv # <<>> /\ clientOk /\ variant = 2
                    THEN << Call("ListGroups", <<>>, <<>>, 0, 1, groupsOk) >>
                    ELSE <<>>
        /\ screen' = IF tokenEnv = <<>> \/ ~clientOk \/ (variant = 2 /\ ~groupsOk)
                     THEN "exited" ELSE "initialized"
    /\ UNCHANGED <<envVars, serverVars, tree, branchDlg, pipes, jobs, sel, logView>>

\* main(): variant 1 shows the start dialog, variant 2 the group tree
main ==
    /\ screen = "initialized"
    /\ Handle("main")
    /\ IF variant = 1
       THEN screen' = "start" /\ calls' = <<>> /\ UNCHANGED tree
       ELSE SetRootTree(<<>>)
    /\ UNCHANGED <<envVars, serverVars, gitlabURL, branchDlg, pipes, jobs, sel, logView>>

\* "List all groups" that builds the tree with a search term
StartListAllFiltered ==
    /\ screen = "start"
    /\ Handle("ListAllGroups")
    /\ SetRootTree(<<"a","l">>)
    /\ UNCHANGED <<envVars, serverVars, gitlabURL, branchDlg, pipes, jobs, sel, logView>>

\* start dialog, button "List all groups"
StartListAll ==
    /\ screen = "start"
    /\ Handle("ListAllGroups")
    /\ SetRootTree(<<>>)
    /\ UNCHANGED <<envVars, serverVars, gitlabURL, branchDlg, pipes, jobs, sel, logView>>

\* start dialog, button "Search group by name": showGroupSearchInput
StartSearch ==
    /\ screen = "start"
    /\ Handle("SearchGroupByName")
    /\ screen' = "search"
    /\ calls' = <<>>
    /\ UNCHANGED <<envVars, serverVars, gitlabURL, tree, branchDlg, pipes, jobs, sel, logView>>

\* the input field's done function on Enter
SubmitFilter ==
    /\ screen = "search"
    /\ \E searchTerm \in FilterTexts :
        /\ HandleInput("SubmitFilter", [NoInput EXCEPT !.text = searchTerm])
        /\ SetRootTree(searchTerm)
    /\ UNCHANGED <<envVars, serverVars, gitlabURL, branchDlg, pipes, jobs, sel, logView>>

(***************************************************************************)
(* Group tree -> branch selection -> pipeline list                         *)
(***************************************************************************)
\* the nodes of the tree view the user can activate
SelectableNodes(t) ==
    LET inst == t.root.children[1]
        groups == {inst.children[i] : i \in 1..Len(inst.children)}
    IN  {inst} \cup groups \cup
        UNION {{g.children[i] : i \in 1..Len(g.children)} : g \in groups}

\* the id the pipeline item's handler passes on: the loop variable the closure
\* captured, which a build with one variable per loop leaves at the last pipeline
CapturedPipelineID(fetched, i) ==
    IF loopVar = "perIteration" THEN fetched[i].ID ELSE fetched[Len(fetched)].ID

\* the pipeline list view fetchAndShowPipelines builds
PipelineListView(projectID, branch, fetched) ==
    [projectID |-> projectID, branch |-> branch,
     items |-> [i \in 1..Len(fetched) |->
                   [ID |-> fetched[i].ID, Ref |-> fetched[i].Ref,
                    handlerID |-> CapturedPipelineID(fetched, i)]]]

\* fetchAndShowPipelines: on a failed fetch return, else show the new list
fetchAndShowPipelines(projectID, branch, ok) ==
    /\ calls' = << Call("ListProjectPipelines", projectID, branch, 0, 1, ok) >>
    /\ IF ok
       THEN /\ screen' = "pipelines"
            /\ pipes' = PipelineListView(projectID, branch,
                                         ListProjectPipelines(projectID, branch))
       ELSE UNCHANGED <<screen, pipes>>

\* showPipelines without the test of the node's reference
showPipelinesUnchecked(node, ok) ==
    /\ calls' = << Call("ListBranches", node.ref, <<>>, 0, 1, ok) >>
    /\ IF ok
       THEN /\ screen' = "branches"
            /\ branchDlg' = [projectID |-> node.ref,
                             branches |-> ListBranches(node.ref)]
       ELSE UNCHANGED <<screen, branchDlg>>

\* showPipelines: the branch selection for the project the node refers to
showPipelines(node, ok) ==
    IF ~node.hasRef
    THEN calls' = <<>> /\ UNCHANGED <<screen, branchDlg>>
    ELSE /\ calls' = << Call("ListBranches", node.ref, <<>>, 0, 1, ok) >>
         /\ IF ok
            THEN /\ screen' = "branches"
                 /\ branchDlg' = [projectID |-> node.ref,
                                  branches |-> ListBranches(node.ref)]
            ELSE UNCHANGED <<screen, branchDlg>>

\* the tree's selected function that takes every node for a project
TreeSelectAnyNode ==
    /\ screen = "tree"
    /\ \E node \in SelectableNodes(tree), ok \in BOOLEAN :
        /\ HandleInput("SelectNode", [NoInput EXCEPT !.node = node])
        /\ showPipelinesUnchecked(node, ok)
    /\ UNCHANGED <<envVars, serverVars, gitlabURL, tree, pipes, jobs, sel, logView>>

\* the tree's selected function: only nodes labelled as projects go on
TreeSelect ==
    /\ screen = "tree"
    /\ \E node \in SelectableNodes(tree), ok \in BOOLEAN :
        /\ HandleInput("SelectNode", [NoInput EXCEPT !.node = node])
        /\ IF HasPrefix(node.text, ProjectPrefix)
           THEN showPipelines(node, ok)
           ELSE calls' = <<>> /\ UNCHANGED <<screen, branchDlg>>
    /\ UNCHANGED <<envVars, serverVars, gitlabURL, tree, pipes, jobs, sel, logView>>

\* variant 1: an option of the branch drop-down is selected
handleBranchSelection ==
    /\ screen = "branches"
    /\ variant = 1
    /\ \E optionIndex \in 1..Len(branchDlg.branches), ok \in BOOLEAN :
        /\ HandleInput("SelectBranch", [NoInput EXCEPT !.index = optionIndex])
        /\ fetchAndShowPipelines(branchDlg.projectID,
                                 branchDlg.branches[optionIndex].Name, ok)
    /\ branchDlg' = IF screen' = "pipelines" THEN NoBranchDlg ELSE branchDlg
    /\ UNCHANGED <<envVars, serverVars, gitlabURL, tree, jobs, sel, logView>>

\* the branch modal's done function that fetches for the label of whatever
\* button was pressed, the "Cancel" button included
BranchModalDoneByLabel ==
    /\ screen = "branches"
    /\ variant = 2
    /\ \E buttonIndex \in -1..Len(branchDlg.branches), ok \in BOOLEAN :
        /\ HandleInput(IF buttonIndex = -1 THEN "Esc"
                       ELSE IF buttonIndex = Len(branchDlg.branches) THEN "Cancel"
                       ELSE "SelectBranch",
                       [NoInput EXCEPT !.index = buttonIndex + 1])
        /\ IF buttonIndex >= 0
           THEN fetchAndShowPipelines(branchDlg.projectID,
                    IF buttonIndex < Len(branchDlg.branches)
                    THEN branchDlg.branches[buttonIndex + 1].Name
                    ELSE <<"C","a","n","c","e","l">>, ok)
           ELSE calls' = <<>> /\ UNCHANGED <<screen, pipes>>
    /\ branchDlg' = IF screen' = "pipelines" THEN NoBranchDlg ELSE branchDlg
    /\ UNCHANGED <<envVars, serverVars, gitlabURL, tree, jobs, sel, logView>>

\* variant 2: the branch modal's done function; button indices are 0-based,
\* the last button is "Cancel" and escape reports index -1
BranchModalDone ==
    /\ screen = "branches"
    /\ variant = 2
    /\ \E buttonIndex \in -1..Len(branchDlg.branches), ok \in BOOLEAN :
        /\ HandleInput(IF buttonIndex = -1 THEN "Esc"
                       ELSE IF buttonIndex = Len(branchDlg.branches) THEN "Cancel"
                       ELSE "SelectBranch",
                       [NoInput EXCEPT !.index = buttonIndex + 1])
        /\ IF buttonIndex >= 0 /\ buttonIndex < Len(branchDlg.branches)
           THEN fetchAndShowPipelines(branchDlg.projectID,
                                      branchDlg.branches[buttonIndex + 1].Name, ok)
           ELSE calls' = <<>> /\ UNCHANGED <<screen, pipes>>
    /\ branchDlg' = IF screen' = "pipelines" THEN NoBranchDlg ELSE branchDlg
    /\ UNCHANGED <<envVars, serverVars, gitlabURL, tree, jobs, sel, logView>>

\* returnToGroupTree: escape on the pipeline list
returnToGroupTree ==
    /\ screen = "pipelines"
    /\ Handle("Esc")
    /\ SetRootTree(<<>>)
    /\ pipes' = NoPipes
    /\ UNCHANGED <<envVars, serverVars, gitlabURL, branchDlg, jobs, sel, logView>>

(***************************************************************************)
(* Pipeline list -> job list -> job action -> log view                     *)
(***************************************************************************)
\* the job list view with the pipeline's project as its pipeline name
rebuildJobListViewMixed(pipelineJobs, projectID, pipelineName) ==
    [projectID |-> projectID, pipelineName |-> projectID,
     pipelineJobs |-> pipelineJobs]

\* rebuildJobListView: the job list view over the given jobs
rebuildJobListView(pipelineJobs, projectID, pipelineName) ==
    [projectID |-> projectID, pipelineName |-> pipelineName,
     pipelineJobs |-> pipelineJobs]

\* fetchAndShowJobs that shows a job list whether or not the fetch worked
fetchAndShowJobsAlways(projectID, pipelineID, pipelineName, ok) ==
    /\ calls' = << Call("ListPipelineJobs", projectID, <<>>, toInt(pipelineID), 1, ok) >>
    /\ screen' = "jobs"
    /\ jobs' = rebuildJobListView(
                    IF ok THEN ListPipelineJobs(projectID, toInt(pipelineID)) ELSE <<>>,
                    projectID, pipelineName)

\* fetchAndShowJobs: on a failed fetch return, else show the job list
fetchAndShowJobs(projectID, pipelineID, pipelineName, ok) ==
    /\ calls' = << Call("ListPipelineJobs", projectID, <<>>, toInt(pipelineID), 1, ok) >>
    /\ IF ok
       THEN /\ screen' = "jobs"
            /\ jobs' = rebuildJobListView(ListPipelineJobs(projectID, toInt(pipelineID)),
                                          projectID, pipelineName)
       ELSE UNCHANGED <<screen, jobs>>

\* a pipeline item is activated: its handler runs fetchAndShowJobs
SelectPipeline ==
    /\ screen = "pipelines"
    /\ \E i \in 1..Len(pipes.items), ok \in BOOLEAN :
        /\ HandleInput("SelectPipeline", [NoInput EXCEPT !.index = i])
        /\ fetchAndShowJobs(pipes.projectID, Itoa(pipes.items[i].handlerID),
                            pipes.branch, ok)
    /\ UNCHANGED <<envVars, serverVars, gitlabURL, tree, branchDlg, pipes, sel, logView>>

\* escape on the job list: fetchAndShowPipelines for the list's project and branch
JobListEsc ==
    /\ screen = "jobs"
    /\ Handle("Esc")
    /\ \E ok \in BOOLEAN : fetchAndShowPipelines(jobs.projectID, jobs.pipelineName, ok)
    /\ jobs' = IF screen' = "pipelines" THEN NoJobs ELSE jobs
    /\ UNCHANGED <<envVars, serverVars, gitlabURL, tree, branchDlg, sel, logView>>

\* the action dialog opened for the job after the activated one
SelectJobOffByOne ==
    /\ screen = "jobs"
    /\ \E index \in 1..Len(jobs.pipelineJobs) :
        /\ HandleInput("SelectJob", [NoInput EXCEPT !.index = index])
        /\ sel' = (index % Len(jobs.pipelineJobs)) + 1
    /\ screen' = "action"
    /\ calls' = <<>>
    /\ UNCHANGED <<envVars, serverVars, gitlabURL, tree, branchDlg, pipes, jobs, logView>>

\* a job item is activated: the action dialog for pipelineJobs[index]
SelectJob ==
    /\ screen = "jobs"
    /\ \E index \in 1..Len(jobs.pipelineJobs) :
        /\ HandleInput("SelectJob", [NoInput EXCEPT !.index = index])
        /\ sel' = index
    /\ screen' = "action"
    /\ calls' = <<>>
    /\ UNCHANGED <<envVars, serverVars, gitlabURL, tree, branchDlg, pipes, jobs, logView>>

\* returnToJobList: the job list rebuilt over the jobs the closure holds
returnToJobList ==
    /\ screen' = "jobs"
    /\ jobs' = rebuildJobListView(jobs.pipelineJobs, jobs.projectID, jobs.pipelineName)

\* action dialog, "Logs": fetchAndDisplayJobLogs; a failed fetch or read returns
ActionLogs ==
    /\ screen = "action"
    /\ Handle("Logs")
    /\ \E ok \in BOOLEAN, readOk \in BOOLEAN :
        /\ calls' = << Call("GetTraceFile", jobs.projectID, <<>>,
                            toInt(Itoa(jobs.pipelineJobs[sel].ID)), 1, ok /\ readOk) >>
        /\ IF ok /\ readOk
           THEN /\ screen' = "logs"
                /\ logView' = toInt(Itoa(jobs.pipelineJobs[sel].ID))
                /\ sel' = 0
           ELSE UNCHANGED <<screen, logView, sel>>
    /\ UNCHANGED <<envVars, serverVars, gitlabURL, tree, branchDlg, pipes, jobs>>

\* Jobs.RetryJob on the instance: an accepted retry puts the job back in the queue
RetryJob(job, ok) ==
    IF ok
    THEN /\ jobStatus' = [jobStatus EXCEPT ![job] = "pending"]
         /\ retries' = retries + 1
    ELSE UNCHANGED <<jobStatus, retries>>

\* action dialog, "Retry": retryJob, then returnToJobList whatever the outcome
ActionRetry ==
    /\ screen = "action"
    /\ Handle("Retry")
    /\ \E ok \in BOOLEAN :
        /\ ok => (retries < MaxRetries
                  /\ toInt(Itoa(jobs.pipelineJobs[sel].ID)) \in DOMAIN jobStatus)
        /\ calls' = << Call("RetryJob", jobs.projectID, <<>>,
                            toInt(Itoa(jobs.pipelineJobs[sel].ID)), 1, ok) >>
        /\ RetryJob(toInt(Itoa(jobs.pipelineJobs[sel].ID)), ok)
    /\ returnToJobList
    /\ sel' = 0
    /\ UNCHANGED <<envVars, gitlabURL, tree, branchDlg, pipes, logView>>

\* "Cancel" that falls through into the retry
ActionCancelFallsThrough ==
    /\ screen = "action"
    /\ Handle("Cancel")
    /\ calls' = << Call("RetryJob", jobs.projectID, <<>>,
                        toInt(Itoa(jobs.pipelineJobs[sel].ID)), 1, FALSE) >>
    /\ returnToJobList
    /\ sel' = 0
    /\ UNCHANGED <<envVars, serverVars, gitlabURL, tree, branchDlg, pipes, logView>>

\* action dialog, "Cancel": returnToJobList
ActionCancel ==
    /\ screen = "action"
    /\ Handle("Cancel")
    /\ returnToJobList
    /\ sel' = 0
    /\ calls' = <<>>
    /\ UNCHANGED <<envVars, serverVars, gitlabURL, tree, branchDlg, pipes, logView>>

\* escape on the log view that rebuilds the job list without its jobs
LogViewEscEmptyList ==
    /\ screen = "logs"
    /\ Handle("Esc")
    /\ screen' = "jobs"
    /\ jobs' = rebuildJobListView(<<>>, jobs.projectID, jobs.pipelineName)
    /\ logView' = 0
    /\ calls' = <<>>
    /\ UNCHANGED <<envVars, serverVars, gitlabURL, tree, branchDlg, pipes, sel>>

\* escape on the log view: returnToModal, which is returnToJobList
LogViewEsc ==
    /\ screen = "logs"
    /\ Handle("Esc")
    /\ returnToJobList
    /\ logView' = 0
    /\ calls' = <<>>
    /\ UNCHANGED <<envVars, serverVars, gitlabURL, tree, branchDlg, pipes, sel>>

\* escape that leaves the group tree for the start of the program
EscReturnsToLaunch ==
    /\ \/ screen \in {"start", "search", "tree", "action"}
       \/ screen = "branches" /\ variant = 1
    /\ Handle("Esc")
    /\ calls' = <<>>
    /\ screen' = IF screen = "tree" THEN "initialized" ELSE screen
    /\ tree' = IF screen = "tree" THEN NoTree ELSE tree
    /\ UNCHANGED <<envVars, serverVars, gitlabURL, branchDlg, pipes, jobs, sel, logView>>

\* escape where no handler acts on it: the start dialog and the action dialog
\* (their done functions match no label), the search field (only Enter is
\* handled), the group tree and the branch drop-down (no done function is set)
EscIgnored ==
    /\ \/ screen \in {"start", "search", "tree", "action"}
       \/ screen = "branches" /\ variant = 1
    /\ Handle("Esc")
    /\ calls' = <<>>
    /\ UNCHANGED <<envVars, serverVars, uiVars>>

Next ==
    \/ init
    \/ main
    \/ StartListAll
    \/ StartSearch
    \/ SubmitFilter
    \/ TreeSelect
    \/ handleBranchSelection
    \/ BranchModalDone
    \/ returnToGroupTree
    \/ SelectPipeline
    \/ JobListEsc
    \/ SelectJob
    \/ ActionLogs
    \/ ActionRetry
    \/ ActionCancel
    \/ LogViewEsc
    \/ EscIgnored

Spec == Init /\ [][Next]_vars

(***************************************************************************)
(* Properties                                                              *)
(***************************************************************************)
\* the events that (re)build the group view from a displayed view
RebuildsGroups ==
    \/ lastEvent = "SubmitFilter"
    \/ lastEvent = "ListAllGroups"
    \/ lastEvent = "Esc" /\ pre.screen = "pipelines"

\* the ListGroups calls of the last handler
GroupCalls == SelectSeq(calls, LAMBDA c : c.op = "ListGroups")

\* the texts of the group nodes of the tree view
GroupNodeTexts ==
    [i \in 1..Len(tree.root.children[1].children) |->
        tree.root.children[1].children[i].text]

GroupPrefix == IF variant = 1 THEN GroupPrefix1 ELSE GroupPrefix2

\* name contains filter as a substring when the case of letters is ignored
ContainsIgnoringCase(name, filter) ==
    \E k \in 0..(Len(name) - Len(filter)) :
        \A j \in 1..Len(filter) : ToLowerChar(name[k + j]) = ToLowerChar(filter[j])

\* the texts the group nodes have when exactly the groups of `groups` whose
\* name contains `filter` are shown, in order
ExpectedGroupTexts(groups, filter) ==
    LET keep == SelectSeq(groups, LAMBDA g : ContainsIgnoringCase(g.Name, filter))
    IN  [i \in 1..Len(keep) |-> GroupPrefix \o keep[i].Name]

\* the displayed job list holds job j with the status the server has for it
RetriedJobShown(j) ==
    \E i \in 1..Len(jobs.pipelineJobs) :
        jobs.pipelineJobs[i].ID = j /\ jobs.pipelineJobs[i].Status = jobStatus[j]

\* C1: after a successful Retry of job j the job list is fetched again and the
\* displayed JobList shows the server's status of j.
C1_RetryShowsServerStatus ==
    (lastEvent = "Retry" /\ calls[1].ok) =>
        /\ screen = "jobs"
        /\ \E i \in 1..Len(calls) : calls[i].op = "ListPipelineJobs" /\ calls[i].ok
        /\ RetriedJobShown(calls[1].id)

\* C2: when the group listing fetch fails while the group view is (re)built
\* from a displayed view, the view displayed before stays, contents untouched.
C2_GroupFetchFailureKeepsView ==
    (RebuildsGroups /\ Len(GroupCalls) > 0 /\ ~GroupCalls[1].ok) =>
        /\ screen = pre.screen
        /\ tree = pre.tree

\* C3: a failed log fetch after "Logs" or a failed retry after "Retry" leaves
\* the JobList displayed, with the items it had before the job was selected.
C3_ActionFailureShowsJobList ==
    (pre.screen = "action" /\ lastEvent \in {"Logs", "Retry"} /\ ~calls[1].ok) =>
        /\ screen = "jobs"
        /\ jobs = pre.jobs

\* C4: back from a PipelineList shows a GroupList whose filter is the filter
\* that was in effect when the project was selected.
C4_BackRestoresLastFilter ==
    (pre.screen = "pipelines" /\ lastEvent = "Esc") =>
        /\ screen = "tree"
        /\ tree.searchTerm = pre.tree.searchTerm

\* C5: building the group view of a listing of N pages requests pages 1..N in
\* order (one request when N is 0 or 1) and shows the filtered concatenation
\* of all pages.
C5_GroupListingPagesThroughAll ==
    ((RebuildsGroups \/ lastEvent = "main") /\ Len(GroupCalls) > 0
      /\ \A i \in 1..Len(GroupCalls) : GroupCalls[i].ok) =>
        /\ Len(GroupCalls) = (IF nGroupPages = 0 THEN 1 ELSE nGroupPages)
        /\ \A i \in 1..Len(GroupCalls) : GroupCalls[i].page = i
        /\ GroupNodeTexts = ExpectedGroupTexts(AllGroups(nGroupPages), tree.searchTerm)

\* C6: a PipelineList shows every pipeline of every page of its (project,
\* branch), in the server's order.
C6_PipelineListShowsAllPages ==
    screen = "pipelines" =>
        [i \in 1..Len(pipes.items) |-> pipes.items[i].ID] =
        [i \in 1..Len(AllPipelines(toInt(pipes.projectID), pipes.branch,
                        PipePageCount(toInt(pipes.projectID), pipes.branch, nPipePages),
                        nPipePages)) |->
            AllPipelines(toInt(pipes.projectID), pipes.branch,
                        PipePageCount(toInt(pipes.projectID), pipes.branch, nPipePages),
                        nPipePages)[i].ID]

\* C7: the groups shown are exactly the fetched groups whose name contains the
\* filter as a case-insensitive substring, in the fetched order; the empty
\* filter shows every fetched group.
C7_FilterIsCaseInsensitiveSubstring ==
    (screen = "tree" /\ (RebuildsGroups \/ lastEvent = "main")
      /\ Len(GroupCalls) > 0 /\ GroupCalls[1].ok) =>
        /\ GroupNodeTexts = ExpectedGroupTexts(ListGroups, tree.searchTerm)
        /\ tree.searchTerm = <<>> => Len(GroupNodeTexts) = Len(ListGroups)

\* a filter that differs in case from the name it matches hides another group
C7_Witness ==
    /\ screen = "tree"
    /\ lastEvent = "SubmitFilter"
    /\ GroupCalls[1].ok
    /\ tree.searchTerm = <<"A","L">>
    /\ Len(ListGroups) = 2
    /\ GroupNodeTexts = << GroupPrefix1 \o <<"A","l","p","h","a">> >>

\* the views of the navigation, from the group tree downwards
NavScreens == {"tree", "branches", "pipelines", "jobs", "action", "logs"}

\* C8: once the GroupList is shown no event takes the program back behind it,
\* back from the PipelineList ends on it, and escape on the GroupList leaves
\* the view and its filter as they are.
C8_GroupListIsRoot ==
    /\ pre.screen \in NavScreens => screen \in NavScreens
    /\ (pre.screen = "pipelines" /\ lastEvent = "Esc") => screen = "tree"
    /\ (pre.screen = "tree" /\ lastEvent = "Esc") =>
            (screen = "tree" /\ tree = pre.tree /\ calls = <<>>)
    /\ screen \in NavScreens => tree.built

\* escape was pressed on a group tree that shows a filtered group
C8_Witness ==
    /\ pre.screen = "tree"
    /\ lastEvent = "Esc"
    /\ screen = "tree"
    /\ tree.searchTerm = <<"a","l">>
    /\ Len(GroupNodeTexts) = 1

\* C9: escape on the branch selection returns to the GroupList as it was
\* before the project was selected, without a pipeline fetch.
C9_EscapeLeavesBranchSelection ==
    (pre.screen = "branches" /\ lastEvent = "Esc") =>
        /\ screen = "tree"
        /\ tree = pre.tree
        /\ calls = <<>>

\* C10: a JobList carries the project and branch of the PipelineList it was
\* entered from, and back from it fetches and shows the PipelineList of that
\* same project and branch.
C10_BackFromJobsKeepsProjectAndBranch ==
    /\ screen \in {"jobs", "action", "logs"} =>
            (jobs.projectID = pipes.projectID /\ jobs.pipelineName = pipes.branch)
    /\ (pre.screen = "jobs" /\ lastEvent = "Esc") =>
            /\ calls[1].op = "ListProjectPipelines"
            /\ calls[1].project = pre.pipes.projectID
            /\ calls[1].ref = pre.pipes.branch
            /\ calls[1].ok => screen = "pipelines"
            /\ screen = "pipelines" =>
                    (pipes.projectID = pre.pipes.projectID
                     /\ pipes.branch = pre.pipes.branch)

\* back from the JobList of a pipeline of branch dev shows the list of dev
C10_Witness ==
    /\ pre.screen = "jobs"
    /\ lastEvent = "Esc"
    /\ screen = "pipelines"
    /\ pre.pipes.branch = dev_
    /\ pipes.branch = dev_
    /\ pipes.projectID = Itoa(42)

FetchesForView ==
    \/ lastEvent \in {"SelectNode", "SelectBranch", "SelectPipeline"}
    \/ lastEvent = "Esc" /\ pre.screen = "jobs"

\* C12: when the fetch of branches, pipelines or jobs fails, no view is
\* created and the view displayed before is still displayed, contents as before.
C12_FetchFailureKeepsView ==
    (FetchesForView /\ Len(calls) > 0 /\ ~calls[1].ok) =>
        /\ screen = pre.screen
        /\ tree = pre.tree
        /\ branchDlg = pre.branchDlg
        /\ pipes = pre.pipes
        /\ jobs = pre.jobs

\* the job fetch failed on a pipeline list that shows pipelines
C12_Witness ==
    /\ lastEvent = "SelectPipeline"
    /\ ~calls[1].ok
    /\ screen = "pipelines"
    /\ Len(pipes.items) = 2

\* C13 as stated: on launch, before any input, the groups are fetched with the
\* empty filter and the first view is the GroupList with filter "".
C13_LaunchShowsGroupList ==
    lastEvent = "main" =>
        /\ screen = "tree"
        /\ tree.searchTerm = <<>>
        /\ Len(GroupCalls) > 0

\* C13 amended: variant 2 fetches the groups at launch and shows the GroupList
\* with the empty filter first; variant 1 shows the start dialog first, without
\* a fetch, and "List all groups" then fetches and shows that GroupList.
C13_LaunchAmended ==
    /\ (lastEvent = "main" /\ variant = 2) =>
            (screen = "tree" /\ tree.searchTerm = <<>> /\ Len(GroupCalls) = 1)
    /\ (lastEvent = "main" /\ variant = 1) =>
            (screen = "start" /\ calls = <<>> /\ ~tree.built)
    /\ lastEvent = "ListAllGroups" =>
            /\ pre.screen = "start"
            /\ screen = "tree"
            /\ tree.searchTerm = <<>>
            /\ Len(GroupCalls) = 1
            /\ GroupCalls[1].ok => Len(GroupNodeTexts) = Len(ListGroups)

\* "List all groups" of the start dialog showed both groups of the page
C13_Witness ==
    /\ lastEvent = "ListAllGroups"
    /\ variant = 1
    /\ screen = "tree"
    /\ GroupCalls[1].ok
    /\ Len(GroupNodeTexts) = 2

\* C14: "Cancel" in the job action dialog makes no remote call and shows the
\* JobList with the project, pipeline context and job items it had.
C14_CancelChangesNothing ==
    (pre.screen = "action" /\ lastEvent = "Cancel") =>
        /\ calls = <<>>
        /\ screen = "jobs"
        /\ jobs = pre.jobs

\* "Cancel" was chosen for the second job of a list
C14_Witness ==
    /\ pre.screen = "action"
    /\ lastEvent = "Cancel"
    /\ pre.sel = 2
    /\ screen = "jobs"
    /\ Len(jobs.pipelineJobs) = 2

\* C15: without the access token the process exits before any view and before
\* any remote call; without the base URL the public URL is used and startup
\* goes on (variant 2 can still exit on its own group fetch).
C15_TokenRequiredUrlDefaults ==
    /\ tokenEnv = <<>> =>
            (screen \in {"boot", "exited"} /\ calls = <<>> /\ ~tree.built)
    /\ (lastEvent = "init" /\ tokenEnv = <<>>) => screen = "exited"
    /\ (lastEvent = "init" /\ tokenEnv # <<>> /\ urlEnv = <<>>) =>
            /\ gitlabURL = DefaultURL
            /\ screen = "initialized" \/ (variant = 2 /\ ~calls[1].ok)
    /\ (tokenEnv # <<>> /\ urlEnv = <<>> /\ screen \notin {"boot", "exited"}) =>
            gitlabURL = DefaultURL

\* init() ended the process for want of a token
C15_Witness ==
    /\ lastEvent = "init"
    /\ tokenEnv = <<>>
    /\ screen = "exited"
    /\ calls = <<>>

\* the group tree `t` with the reference taken off the project nodes in `lost`
StripRefs(t, lost) ==
    LET strip(n) == IF n.hasRef /\ toInt(n.ref) \in lost
                    THEN [n EXCEPT !.hasRef = FALSE, !.ref = <<>>] ELSE n
        inst == t.root.children[1]
        groups == [i \in 1..Len(inst.children) |->
                      [inst.children[i] EXCEPT !.children =
                          [j \in 1..Len(inst.children[i].children) |->
                              strip(inst.children[i].children[j])]]]
    IN  [t EXCEPT !.root.children = << [inst EXCEPT !.children = groups] >>]

\* a group tree on display whose project nodes may lack their reference
InitRef ==
    /\ variant \in {1, 2}
    /\ loopVar \in {"shared", "perIteration"}
    /\ tokenEnv = SomeToken
    /\ urlEnv \in {<<>>, CustomURL}
    /\ nGroupPages \in {1, MaxGroupPages}
    /\ nPipePages \in {1, MaxPipePages}
    /\ jobStatus = [j \in AllJobIDs |-> InitialJobStatus(j)]
    /\ retries = 0
    /\ gitlabURL = IF urlEnv = <<>> THEN DefaultURL ELSE urlEnv
    /\ screen = "tree"
    /\ \E searchTerm \in (IF variant = 1 THEN FilterTexts ELSE {<<>>}),
          lost \in SUBSET {42, 43, 44} :
            tree = StripRefs(buildTree(searchTerm, TRUE, {}), lost)
    /\ branchDlg = NoBranchDlg
    /\ pipes = NoPipes
    /\ jobs = NoJobs
    /\ sel = 0
    /\ logView = 0
    /\ lastEvent = "none"
    /\ input = NoInput
    /\ calls = <<>>
    /\ pre = Snapshot

\* node activations on such a tree
SpecRef == InitRef /\ [][TreeSelect]_vars

\* C16: activating a project node whose reference carries no project id
\* issues no branch fetch and leaves the displayed GroupList as it is.
C16_MissingReferenceAborts ==
    (lastEvent = "SelectNode" /\ HasPrefix(input.node.text, ProjectPrefix)
      /\ ~input.node.hasRef) =>
        /\ calls = <<>>
        /\ screen = "tree"
        /\ tree = pre.tree
        /\ branchDlg = pre.branchDlg

\* a project node without reference was activated
C16_Witness ==
    /\ lastEvent = "SelectNode"
    /\ HasPrefix(input.node.text, ProjectPrefix)
    /\ ~input.node.hasRef
    /\ input.node \in SelectableNodes(tree)

\* C18: activating the i-th item of a PipelineList fetches the jobs of the
\* i-th pipeline shown, with the list's project, and keeps the list's branch.
C18_ItemFetchesItsOwnPipeline ==
    lastEvent = "SelectPipeline" =>
        /\ calls[1].op = "ListPipelineJobs"
        /\ calls[1].id = pre.pipes.items[input.index].ID
        /\ calls[1].project = pre.pipes.projectID
        /\ screen = "jobs" => jobs.pipelineName = pre.pipes.branch

\* inputs to the group tree, when everything goes well
Rank(s) ==
    CASE s = "tree" -> 0
      [] s \in {"start", "search", "pipelines"} -> 1
      [] s \in {"branches", "jobs"} -> 2
      [] s \in {"action", "logs"} -> 3
      [] OTHER -> 0

\* an input that brings the program nearer to the group tree
ReturnStep == Next /\ Rank(screen') < Rank(screen)

\* C19: every view other than the group tree has an input that, with its
\* fetch successful, leads nearer to the group tree: no view is a dead end.
C19_NoDeadEnd == Rank(screen) > 0 => ENABLED ReturnStep

\* C20: the job id passed to the log fetch or the retry is the id of the job
\* at the activated position of the displayed job list, the project is the
\* JobList's, and the position is within the list.
C20_ActionUsesActivatedJob ==
    /\ lastEvent = "SelectJob" =>
            /\ input.index \in 1..Len(jobs.pipelineJobs)
            /\ sel = input.index
            /\ jobs = pre.jobs
    /\ screen = "action" => sel \in 1..Len(jobs.pipelineJobs)
    /\ (pre.screen = "action" /\ lastEvent \in {"Logs", "Retry"}) =>
            /\ Len(calls) = 1
            /\ calls[1].op = (IF lastEvent = "Logs" THEN "GetTraceFile" ELSE "RetryJob")
            /\ pre.sel \in 1..Len(pre.jobs.pipelineJobs)
            /\ calls[1].id = pre.jobs.pipelineJobs[pre.sel].ID
            /\ calls[1].project = pre.jobs.projectID

\* the retry of the second job of pipeline 101 went to the server
C20_Witness ==
    /\ pre.screen = "action"
    /\ lastEvent = "Retry"
    /\ pre.sel = 2
    /\ calls[1].ok
    /\ calls[1].id = 1012
    /\ calls[1].project = Itoa(42)

\* the ListGroupProjects calls of the last handler
ProjectCalls == SelectSeq(calls, LAMBDA c : c.op = "ListGroupProjects")

\* the group nodes of the tree view
GroupNodes == tree.root.children[1].children

\* the fetched groups whose name contains the tree's filter, in fetched order
PassingGroups ==
    SelectSeq(ListGroups, LAMBDA g : ContainsIgnoringCase(g.Name, tree.searchTerm))

\* the texts of the project nodes the instance's projects of group g make
ExpectedProjectTexts(g) ==
    [j \in 1..Len(ProjectsOfGroup(g)) |-> ProjectPrefix \o ProjectsOfGroup(g)[j].Name]

\* C21: when the group tree is built from a fetched group listing, projects
\* are listed once for each group that passes the filter and for no other,
\* every such group is shown, a group whose project listing failed has no
\* children, and every other group shows its projects.
C21_ProjectFailureIsLocal ==
    ((RebuildsGroups \/ lastEvent = "main") /\ Len(GroupCalls) > 0 /\ GroupCalls[1].ok) =>
        /\ screen = "tree"
        /\ Len(ProjectCalls) = Len(PassingGroups)
        /\ Len(GroupNodes) = Len(PassingGroups)
        /\ \A i \in 1..Len(PassingGroups) :
                /\ ProjectCalls[i].id = PassingGroups[i].ID
                /\ GroupNodes[i].text = GroupPrefix \o PassingGroups[i].Name
                /\ [j \in 1..Len(GroupNodes[i].children) |->
                        GroupNodes[i].children[j].text]
                   = (IF ProjectCalls[i].ok
                      THEN ExpectedProjectTexts(PassingGroups[i].ID) ELSE <<>>)

\* the project listing of the first of two groups failed, the second group
\* shows its project
C21_Witness ==
    /\ screen = "tree"
    /\ RebuildsGroups
    /\ Len(GroupCalls) > 0 /\ GroupCalls[1].ok
    /\ Len(ProjectCalls) = 2
    /\ ~ProjectCalls[1].ok /\ ProjectCalls[2].ok
    /\ Len(GroupNodes) = 2
    /\ GroupNodes[1].children = <<>>
    /\ Len(GroupNodes[2].children) = 1

\* the branch list the instance has for the project of the branch selection
\* the last event was handled in
OfferedBranches == BranchesOfProject(toInt(pre.branchDlg.projectID))

\* C22: an input to the branch selection whose index lies in the fetched
\* branch list fetches the pipelines of the selection's project for the branch
\* at that index, and of no other; an input with any other index (the modal's
\* "Cancel" button, escape) fetches nothing and leaves the selection displayed.
C22_BranchAtChosenIndex ==
    (pre.screen = "branches" /\ lastEvent \in {"SelectBranch", "Cancel", "Esc"}) =>
        IF input.index \in 1..Len(OfferedBranches)
        THEN /\ Len(calls) = 1
             /\ calls[1].op = "ListProjectPipelines"
             /\ calls[1].project = pre.branchDlg.projectID
             /\ calls[1].ref = OfferedBranches[input.index].Name
             /\ screen = "pipelines" =>
                    /\ pipes.projectID = pre.branchDlg.projectID
                    /\ pipes.branch = OfferedBranches[input.index].Name
        ELSE /\ calls = <<>>
             /\ screen = "branches"
             /\ branchDlg = pre.branchDlg

\* the second of two offered branches was chosen and its pipelines are shown
C22_Witness ==
    /\ pre.screen = "branches"
    /\ lastEvent = "SelectBranch"
    /\ Len(OfferedBranches) = 2
    /\ input.index = 2
    /\ calls[1].ok
    /\ screen = "pipelines"
    /\ pipes.branch = dev_

\* the node below the tree's root: the instance (variant 2: "Groups")
InstanceNode == pre.tree.root.children[1]

\* the nodes of the tree that stand for the instance or for a group
NonProjectNodes ==
    {InstanceNode} \cup
    {InstanceNode.children[i] : i \in 1..Len(InstanceNode.children)}

\* the nodes of the tree that stand for a project
ProjectNodes ==
    UNION {{g.children[j] : j \in 1..Len(g.children)} :
              g \in {InstanceNode.children[i] : i \in 1..Len(InstanceNode.children)}}

\* C23: activating the instance node or a group node of the group tree makes
\* no remote call and leaves every view as it was; the branch selection is
\* only ever entered by activating a node that stands for a project.
C23_OnlyProjectNodesGoOn ==
    /\ (lastEvent = "SelectNode" /\ input.node \in NonProjectNodes) =>
            /\ calls = <<>>
            /\ Snapshot = pre
    /\ (pre.screen = "tree" /\ screen = "branches") =>
            /\ lastEvent = "SelectNode"
            /\ input.node \in ProjectNodes
            /\ input.node \notin NonProjectNodes

\* a group node that has project children was activated
C23_Witness ==
    /\ lastEvent = "SelectNode"
    /\ input.node \in NonProjectNodes
    /\ input.node # InstanceNode
    /\ Len(input.node.children) = 2
    /\ screen = "tree"

====
